---- MODULE Spec2Model ----
(***************************************************************************)
(* A model of the TtlMap of src/ttlmap.go: a map guarded by a              *)
(* sync.RWMutex whose entries carry an absolute expiration time, and a     *)
(* sweeper goroutine that deletes expired entries on every tick of a       *)
(* time.Ticker until it receives on the stop channel.                      *)
(*                                                                         *)
(* Time is a discrete clock.  The ticker fires exactly when the clock      *)
(* reaches its next tick (the clock does not pass a due tick), while the   *)
(* sweeper goroutine and the client goroutines are scheduled freely: the   *)
(* clock may advance between any two of their steps.                       *)
(*                                                                         *)
(* Entries are pointers (map[K]*item[V]): the table and the maps returned  *)
(* by Copy hold addresses into a heap of items.                            *)
(*                                                                         *)
(* Spec is the current code, FairSpec the same under fair scheduling, and  *)
(* SpecLA the earlier last-access variant kept in src/unnamed/part_001.    *)
(***************************************************************************)
EXTENDS Integers, FiniteSets, TLC

\* ------------------------------------------------------------------ bounds
MaxTime == 3
MaxCalls == 3

\* The (ttl, pruneInterval) pairs New is called with: a ttl shorter than the
\* interval (TestNoItemsExpired), one longer (TestAllItemsExpired), and an
\* interval that is not positive.
Configs == {<<1, 2>>, <<2, 1>>, <<1, 0>>}

Keys == {"k1", "k2"}
Values == {0, 1}
Clients == {"c1", "c2"}

\* The zero value of the value type V (`var value V`).
ZeroValue == 0

Sweeper == "sweeper"
None == "none"
Procs == Clients \cup {Sweeper}

ReadOps == {"Get", "GetOrZero", "Len"}
WriteOps == {"Put", "Delete", "Clear", "Copy"}
Ops == ReadOps \cup WriteOps \cup {"Close"}

\* One heap cell for every item the table and the map Copy returned can hold.
Addrs == 1 .. (2 * Cardinality(Keys))

VARIABLES
    clock,          \* the current time (what time.Now() reads)
    ttl,            \* m.ttl
    pruneInterval,  \* New's pruneInterval
    entries,        \* m.entries: a map from keys to item addresses
    heap,           \* the items: address -> [value, expires]
    lockWriter,     \* m.lock: the goroutine that holds or has announced Lock
    lockReaders,    \* m.lock: the goroutines holding RLock
    ticker,         \* "none" (not yet created), "active" or "stopped"
    tickerNext,     \* the time of the ticker's next tick
    tickerC,        \* ticker.C: a channel of capacity 1 holding tick times
    tickerStops,    \* how many times ticker.Stop() has run
    sweeperPc,      \* where the sweeper goroutine is
    currentTime,    \* the sweeper's currentTime
    pc,             \* where each client goroutine is
    op,             \* the operation each client goroutine is in
    last,           \* what the most recent client operation returned (Copy's map is dst)
    dst,            \* the map Copy last returned, as its caller holds it
    calls           \* the number of operations called so far

vars == <<clock, ttl, pruneInterval, entries, heap, lockWriter, lockReaders,
          ticker, tickerNext, tickerC, tickerStops, sweeperPc, currentTime,
          pc, op, last, dst, calls>>

timeVars == <<clock, ttl, pruneInterval>>
tableVars == <<entries, heap>>
lockVars == <<lockWriter, lockReaders>>
tickerVars == <<ticker, tickerNext, tickerC, tickerStops>>
sweeperVars == <<sweeperPc, currentTime>>
clientVars == <<pc, op, last, dst, calls>>

\* ------------------------------------------------------------------ items
EmptyMap == [k \in {} |-> 0]

\* A heap cell no map refers to (collected by the garbage collector).
FreeItem == [value |-> ZeroValue, expires |-> 0]

\* An item stamped with the time of the Put (the lastAccess of the earlier
\* variant) where the deadline belongs.
NewItemNoTtl(value, now, t) == [value |-> value, expires |-> now]

\* &item[V]{value: value, expires: time.Now().Add(m.ttl).UnixNano()}
NewItem(value, now, t) == [value |-> value, expires |-> now + t]

Range(f) == {f[x] : x \in DOMAIN f}

NoRet == [op |-> None, key |-> None, value |-> ZeroValue, ok |-> FALSE, size |-> 0]

\* The addresses reachable from the table e and the returned map d.
Refs(e, d) == Range(e) \cup Range(d)

\* The heap h after garbage collection: unreachable cells are freed.
Collect(h, e, d) == [a \in Addrs |-> IF a \in Refs(e, d) THEN h[a] ELSE FreeItem]

\* The address of a fresh item: one that nothing reachable from e and d has.
Alloc(e, d) == CHOOSE a \in Addrs \ Refs(e, d) :
                   \A b \in Addrs \ Refs(e, d) : a <= b

MapRemove(m, k) == [x \in DOMAIN m \ {k} |-> m[x]]
MapSet(m, k, a) == [x \in DOMAIN m \cup {k} |-> IF x = k THEN a ELSE m[x]]

\* ------------------------------------------------------------------ Init
Init ==
    /\ clock = 0
    /\ \E cfg \in Configs : ttl = cfg[1] /\ pruneInterval = cfg[2]
    /\ entries = EmptyMap
    /\ heap = [a \in Addrs |-> FreeItem]
    /\ lockWriter = None
    /\ lockReaders = {}
    /\ ticker = "none"
    /\ tickerNext = 0
    /\ tickerC = <<>>
    /\ tickerStops = 0
    /\ sweeperPc = "start"
    /\ currentTime = 0
    /\ pc = [c \in Clients |-> "idle"]
    /\ op = [c \in Clients |-> None]
    /\ last = NoRet
    /\ dst = EmptyMap
    /\ calls = 0


\* ------------------------------------------------------------------ the guard
\* sync.RWMutex: Lock first excludes other writers and new readers, then waits
\* for the active readers to leave; RLock waits while a writer holds or has
\* announced the lock.
\* A Clear that takes the read side of m.lock.
LockKindClearShared(o) == IF o \in ReadOps \cup {"Clear", "Close"} THEN "R" ELSE "W"

\* Which side of m.lock an operation takes: RLock in Len, Get and GetOrZero,
\* Lock in Put, Delete, Clear (also under Close) and Copy.
LockKind(o) == IF o \in ReadOps THEN "R" ELSE "W"

InCS(p) == IF p = Sweeper THEN sweeperPc = "cs" ELSE pc[p] = "cs"

\* m.lock.RLock() / m.lock.Lock() of operation o succeeds for client c: a
\* reader is inside, a writer is inside once no reader is.
Enter(c, o) ==
    /\ lockWriter = None
    /\ IF LockKind(o) = "R"
          THEN /\ lockReaders' = lockReaders \cup {c}
               /\ pc' = [pc EXCEPT ![c] = "cs"]
               /\ UNCHANGED lockWriter
          ELSE /\ lockWriter' = c
               /\ pc' = [pc EXCEPT ![c] = IF lockReaders = {} THEN "cs" ELSE "drain"]
               /\ UNCHANGED lockReaders

\* A client that found m.lock taken gets it.
Acquire(c) ==
    /\ pc[c] = "lock"
    /\ Enter(c, op[c])
    /\ UNCHANGED <<timeVars, tableVars, tickerVars, sweeperVars, op, last, dst, calls>>

\* Lock returns once the readers that were active have left.
Drain(c) ==
    /\ pc[c] = "drain"
    /\ lockReaders = {}
    /\ pc' = [pc EXCEPT ![c] = "cs"]
    /\ UNCHANGED <<timeVars, tableVars, lockVars, tickerVars, sweeperVars, op, last, dst, calls>>

\* An operation that takes m.lock.Lock() and returns without the Unlock.
ReleaseReadersOnly(c) ==
    IF LockKind(op[c]) = "R"
       THEN lockReaders' = lockReaders \ {c} /\ UNCHANGED lockWriter
       ELSE UNCHANGED lockVars

\* defer m.lock.Unlock() / defer m.lock.RUnlock()
Release(c) ==
    IF LockKind(op[c]) = "R"
       THEN lockReaders' = lockReaders \ {c} /\ UNCHANGED lockWriter
       ELSE lockWriter' = None /\ UNCHANGED lockReaders

\* The operation of c returns r.
Return(c, r) ==
    /\ pc' = [pc EXCEPT ![c] = "idle"]
    /\ op' = [op EXCEPT ![c] = None]
    /\ last' = r
    /\ UNCHANGED calls

\* ------------------------------------------------------------------ time
\* The ticker's channel after the clock has reached time now: when a tick is
\* due the ticker sends the time on ticker.C, or drops the tick when the
\* channel still holds an earlier one.
TickSend(ch, now) == IF ch = <<>> THEN <<now>> ELSE ch

\* The process runs: no goroutine has panicked.
Alive == sweeperPc \notin {"panic", "crashed"}

\* Time passes; the ticker fires when the clock reaches its next tick.
AdvanceClock ==
    /\ clock < MaxTime
    /\ Alive
    /\ sweeperPc # "start"
    /\ clock' = clock + 1
    /\ IF ticker = "active" /\ clock' = tickerNext
          THEN /\ tickerC' = TickSend(tickerC, clock')
               /\ tickerNext' = tickerNext + pruneInterval
          ELSE UNCHANGED <<tickerC, tickerNext>>
    /\ UNCHANGED <<ttl, pruneInterval, tableVars, lockVars, ticker, tickerStops,
                   sweeperVars, clientVars>>

\* ------------------------------------------------------------------ the sweeper
\* A sweep that takes expires for the time of the Put (the lastAccess of the
\* earlier variant) and forgets the ttl.
ExpiredSincePut(now, it) == now >= it.expires - ttl

\* if currentTime >= v.expires
Expired(now, it) == now >= it.expires

\* for k, v := range m.entries { if currentTime >= v.expires { delete(m.entries, k) } }
Sweep(e, h, now) == [k \in {x \in DOMAIN e : ~Expired(now, h[e[x]])} |-> e[k]]

\* ticker := time.NewTicker(pruneInterval)
SweeperStart ==
    /\ sweeperPc = "start"
    /\ pruneInterval > 0
    /\ ticker' = "active"
    /\ tickerNext' = clock + pruneInterval
    /\ sweeperPc' = "select"
    /\ UNCHANGED <<timeVars, tableVars, lockVars, tickerC, tickerStops, currentTime,
                   clientVars>>

\* time.NewTicker panics when its duration is not positive: the panic is in the
\* sweeper goroutine, after New has returned the map, and ends the process
\* with every goroutine in it.
SweeperPanic ==
    /\ sweeperPc = "start"
    /\ pruneInterval <= 0
    /\ sweeperPc' = "panic"
    /\ pc' = [c \in Clients |-> "crashed"]
    /\ UNCHANGED <<timeVars, tableVars, lockVars, tickerVars, currentTime,
                   op, last, dst, calls>>

\* A sweeper whose stop branch leaves the select and not the loop (break for
\* return): it goes on receiving ticks after the stop signal.
SweeperTickAfterStop ==
    /\ sweeperPc \in {"select", "stopped"}
    /\ tickerC # <<>>
    /\ currentTime' = tickerC[1]
    /\ tickerC' = <<>>
    /\ sweeperPc' = "lock"
    /\ UNCHANGED <<timeVars, tableVars, lockVars, ticker, tickerNext, tickerStops,
                   clientVars>>

\* case now := <-ticker.C: currentTime := now.UnixNano()
SweeperTick ==
    /\ sweeperPc = "select"
    /\ tickerC # <<>>
    /\ currentTime' = tickerC[1]
    /\ tickerC' = <<>>
    /\ sweeperPc' = "lock"
    /\ UNCHANGED <<timeVars, tableVars, lockVars, ticker, tickerNext, tickerStops,
                   clientVars>>

\* m.lock.Lock()
SweeperLock ==
    /\ sweeperPc = "lock"
    /\ lockWriter = None
    /\ lockWriter' = Sweeper
    /\ sweeperPc' = IF lockReaders = {} THEN "cs" ELSE "drain"
    /\ UNCHANGED <<timeVars, tableVars, lockReaders, tickerVars, currentTime, clientVars>>

SweeperDrain ==
    /\ sweeperPc = "drain"
    /\ lockReaders = {}
    /\ sweeperPc' = "cs"
    /\ UNCHANGED <<timeVars, tableVars, lockVars, tickerVars, currentTime, clientVars>>

\* The range loop and m.lock.Unlock().
SweeperSweep ==
    /\ sweeperPc = "cs"
    /\ entries' = Sweep(entries, heap, currentTime)
    /\ heap' = Collect(heap, entries', dst)
    /\ lockWriter' = None
    /\ sweeperPc' = "select"
    /\ currentTime' = 0
    /\ UNCHANGED <<timeVars, lockReaders, tickerVars, clientVars>>

\* ------------------------------------------------------------------ the clients
\* A client goroutine calls operation o and runs to the send on m.stop (Close)
\* or to m.lock, which it takes at once when no writer has it.
Call(c, o) ==
    /\ pc[c] = "idle"
    /\ calls < MaxCalls
    /\ calls' = calls + 1
    /\ op' = [op EXCEPT ![c] = o]
    /\ IF o = "Close"
          THEN pc' = [pc EXCEPT ![c] = "send"] /\ UNCHANGED lockVars
          ELSE IF lockWriter # None
                  THEN pc' = [pc EXCEPT ![c] = "lock"] /\ UNCHANGED lockVars
                  ELSE Enter(c, o)
    /\ UNCHANGED <<timeVars, tableVars, tickerVars, sweeperVars, last, dst>>

\* size = uint(len(m.entries))
Len(e) == Cardinality(DOMAIN e)

LenBody(c) ==
    /\ pc[c] = "cs" /\ op[c] = "Len"
    /\ Release(c)
    /\ Return(c, [NoRet EXCEPT !.op = "Len", !.size = Len(entries)])
    /\ UNCHANGED <<timeVars, tableVars, tickerVars, sweeperVars, dst>>

\* A Put that keeps the entry a key already has.
PutIfAbsent(e, k, a) == IF k \in DOMAIN e THEN e ELSE MapSet(e, k, a)

\* m.entries[key] = a
PutEntries(e, k, a) == MapSet(e, k, a)

\* m.entries[key] = &item[V]{value: value, expires: time.Now().Add(m.ttl).UnixNano()}
PutBody(c, k, v) ==
    /\ pc[c] = "cs" /\ op[c] = "Put"
    /\ LET a == Alloc(MapRemove(entries, k), dst)
       IN  /\ entries' = PutEntries(entries, k, a)
           /\ heap' = Collect([heap EXCEPT ![a] = NewItem(v, clock, ttl)], entries', dst)
    /\ Release(c)
    /\ Return(c, NoRet)
    /\ UNCHANGED <<timeVars, tickerVars, sweeperVars, dst>>

\* A Get that sets ok and forgets the value.
GetFlagOnly(e, h, k) == [value |-> ZeroValue, ok |-> k \in DOMAIN e]

\* A Get that hides the entries whose deadline has passed.
GetUnexpired(e, h, k) ==
    IF k \in DOMAIN e /\ clock < h[e[k]].expires
       THEN [value |-> h[e[k]].value, ok |-> TRUE]
       ELSE [value |-> ZeroValue, ok |-> FALSE]

\* if item, ok = m.entries[key]; ok { value = item.value }
Get(e, h, k) ==
    IF k \in DOMAIN e THEN [value |-> h[e[k]].value, ok |-> TRUE]
                      ELSE [value |-> ZeroValue, ok |-> FALSE]

\* A Get that refreshes the expiration of the entry it reads (the access
\* refresh of the earlier variant).
GetBodyRefresh(c, k) ==
    /\ pc[c] = "cs" /\ op[c] = "Get"
    /\ Release(c)
    /\ Return(c, [NoRet EXCEPT !.op = "Get", !.key = k,
                               !.value = Get(entries, heap, k).value,
                               !.ok = Get(entries, heap, k).ok])
    /\ heap' = IF k \in DOMAIN entries
                  THEN [heap EXCEPT ![entries[k]].expires = clock + ttl]
                  ELSE heap
    /\ UNCHANGED <<timeVars, entries, tickerVars, sweeperVars, dst>>

\* Get takes RLock, reads m.entries[key] and returns.
GetBody(c, k) ==
    /\ pc[c] = "cs" /\ op[c] = "Get"
    /\ Release(c)
    /\ Return(c, [NoRet EXCEPT !.op = "Get", !.key = k,
                               !.value = Get(entries, heap, k).value,
                               !.ok = Get(entries, heap, k).ok])
    /\ UNCHANGED <<timeVars, tableVars, tickerVars, sweeperVars, dst>>

\* if it, ok := m.entries[key]; ok { value = it.value }
GetOrZero(e, h, k) == IF k \in DOMAIN e THEN h[e[k]].value ELSE ZeroValue

GetOrZeroBody(c, k) ==
    /\ pc[c] = "cs" /\ op[c] = "GetOrZero"
    /\ Release(c)
    /\ Return(c, [NoRet EXCEPT !.op = "GetOrZero", !.key = k,
                               !.value = GetOrZero(entries, heap, k)])
    /\ UNCHANGED <<timeVars, tableVars, tickerVars, sweeperVars, dst>>

\* A Delete that does not look the key up before it reports.
DeleteNoCheck(e, k) == [entries |-> MapRemove(e, k), ok |-> TRUE]

\* _, ok := m.entries[key]; if !ok { return false }; delete(m.entries, key); return true
Delete(e, k) ==
    IF k \in DOMAIN e THEN [entries |-> MapRemove(e, k), ok |-> TRUE]
                      ELSE [entries |-> e, ok |-> FALSE]

DeleteBody(c, k) ==
    /\ pc[c] = "cs" /\ op[c] = "Delete"
    /\ entries' = Delete(entries, k).entries
    /\ heap' = Collect(heap, entries', dst)
    /\ Release(c)
    /\ Return(c, [NoRet EXCEPT !.op = "Delete", !.key = k, !.ok = Delete(entries, k).ok])
    /\ UNCHANGED <<timeVars, tickerVars, sweeperVars, dst>>

\* clear(m.entries) removes the entries one after another.
ClearStep(c, k) ==
    /\ pc[c] = "cs" /\ op[c] \in {"Clear", "Close"}
    /\ k \in DOMAIN entries
    /\ entries' = MapRemove(entries, k)
    /\ heap' = Collect(heap, entries', dst)
    /\ UNCHANGED <<timeVars, lockVars, tickerVars, sweeperVars, clientVars>>

\* clear(m.entries) is done: the deferred Unlock runs and Clear (or Close) returns.
ClearReturn(c) ==
    /\ pc[c] = "cs" /\ op[c] \in {"Clear", "Close"}
    /\ entries = EmptyMap
    /\ Release(c)
    /\ Return(c, NoRet)
    /\ UNCHANGED <<timeVars, tableVars, tickerVars, sweeperVars, dst>>

\* A Copy that makes the map and forgets to fill it.
MapsCopyNothing(to, src) == to

\* maps.Copy(dst, src)
MapsCopy(to, src) ==
    [k \in DOMAIN to \cup DOMAIN src |-> IF k \in DOMAIN src THEN src[k] ELSE to[k]]

\* dst := make(map[K]*item[V], len(m.entries)); maps.Copy(dst, m.entries); return dst
Copy(e) == MapsCopy(EmptyMap, e)

CopyBody(c) ==
    /\ pc[c] = "cs" /\ op[c] = "Copy"
    /\ Release(c)
    /\ Return(c, NoRet)
    /\ dst' = Copy(entries)
    /\ heap' = Collect(heap, entries, dst')
    /\ UNCHANGED <<timeVars, entries, tickerVars, sweeperVars>>

\* A send on a buffered stop channel: Close goes on without the sweeper having
\* received the signal.
CloseSendAsync(c) ==
    /\ pc[c] = "send" /\ op[c] = "Close"
    /\ pc' = [pc EXCEPT ![c] = "lock"]
    /\ UNCHANGED <<timeVars, tableVars, lockVars, tickerVars, sweeperVars,
                   op, last, dst, calls>>

\* A send on a stop channel the sweeper does not receive from (m.stop left
\* nil, the sweeper selecting on its own channel): it never completes.
CloseSendNilChannel(c) ==
    /\ pc[c] = "send" /\ op[c] = "Close"
    /\ FALSE    \* no goroutine ever receives
    /\ UNCHANGED vars

\* A send on m.stop that needs no receiver (a stop channel with a buffer): it
\* succeeds whether the sweeper is there to take it or has already stopped.
CloseSendNoReceiver(c) ==
    /\ pc[c] = "send" /\ op[c] = "Close"
    /\ sweeperPc \in {"select", "stopped"}
    /\ sweeperPc' = "stopped"
    /\ ticker' = "stopped"
    /\ tickerStops' = IF sweeperPc = "select" THEN tickerStops + 1 ELSE tickerStops
    /\ pc' = [pc EXCEPT ![c] = "lock"]
    /\ UNCHANGED <<timeVars, tableVars, lockVars, tickerNext, tickerC, currentTime,
                   op, last, dst, calls>>

\* m.stop <- struct{}{} meets the sweeper's `case <-stop: return`; the deferred
\* ticker.Stop() runs and Close goes on to m.Clear().
CloseSend(c) ==
    /\ pc[c] = "send" /\ op[c] = "Close"
    /\ sweeperPc = "select"
    /\ sweeperPc' = "stopped"
    /\ ticker' = "stopped"
    /\ tickerStops' = tickerStops + 1
    /\ pc' = [pc EXCEPT ![c] = "lock"]
    /\ UNCHANGED <<timeVars, tableVars, lockVars, tickerNext, tickerC, currentTime,
                   op, last, dst, calls>>

\* ------------------------------------------------------------------ the caller's copy
\* The caller deletes key k from the map Copy returned to it.
SnapDelete(k) ==
    /\ Alive
    /\ k \in DOMAIN dst
    /\ dst' = MapRemove(dst, k)
    /\ heap' = Collect(heap, entries, dst')
    /\ UNCHANGED <<timeVars, entries, lockVars, tickerVars, sweeperVars, pc, op, last,
                   calls>>

\* The caller adds or replaces key k in the map Copy returned to it
\* (dst[k] = dst[k2]).
SnapAssign(k, k2) ==
    /\ Alive
    /\ k2 \in DOMAIN dst /\ k # k2
    /\ dst' = MapSet(dst, k, dst[k2])
    /\ heap' = Collect(heap, entries, dst')
    /\ UNCHANGED <<timeVars, entries, lockVars, tickerVars, sweeperVars, pc, op, last,
                   calls>>

\* ------------------------------------------------------------------ specification
Next ==
    \/ AdvanceClock
    \/ SweeperStart
    \/ SweeperPanic
    \/ SweeperTick
    \/ SweeperLock
    \/ SweeperDrain
    \/ SweeperSweep
    \/ \E c \in Clients, o \in Ops : Call(c, o)
    \/ \E c \in Clients : Acquire(c)
    \/ \E c \in Clients : Drain(c)
    \/ \E c \in Clients : LenBody(c)
    \/ \E c \in Clients, k \in Keys, v \in Values : PutBody(c, k, v)
    \/ \E c \in Clients, k \in Keys : GetBody(c, k)
    \/ \E c \in Clients, k \in Keys : GetOrZeroBody(c, k)
    \/ \E c \in Clients, k \in Keys : DeleteBody(c, k)
    \/ \E c \in Clients, k \in Keys : ClearStep(c, k)
    \/ \E c \in Clients : ClearReturn(c)
    \/ \E c \in Clients : CopyBody(c)
    \/ \E c \in Clients : CloseSend(c)
    \/ \E k \in Keys : SnapDelete(k)
    \/ \E k, k2 \in Keys : SnapAssign(k, k2)

Spec == Init /\ [][Next]_vars

\* The steps of client c inside an operation that need no other goroutine.
ClientStep(c) ==
    \/ Drain(c)
    \/ LenBody(c)
    \/ CopyBody(c)
    \/ ClearReturn(c)
    \/ \E k \in Keys : GetBody(c, k) \/ GetOrZeroBody(c, k) \/ DeleteBody(c, k)
                        \/ ClearStep(c, k)
    \/ \E k \in Keys, v \in Values : PutBody(c, k, v)

\* The steps of the sweeper goroutine.
SweeperStep ==
    \/ SweeperStart
    \/ SweeperPanic
    \/ SweeperTick
    \/ SweeperLock
    \/ SweeperDrain
    \/ SweeperSweep

\* Fair scheduling: a goroutine that can keep running does run.  This is weak
\* fairness only, less than the runtime gives (sync.RWMutex also hands the lock
\* to a waiter that finds it free again and again): nothing obliges a caller to
\* call, the caller of Copy to touch its map, or the clock to advance.
Fairness ==
    /\ WF_vars(SweeperStep)
    /\ \A c \in Clients : WF_vars(ClientStep(c) \/ Acquire(c) \/ CloseSend(c))

FairSpec == Spec /\ Fairness

\* ------------------------------------------------------------------ the last-access variant
\* The earlier variant of the map (src/unnamed/part_001, version 0.1.0), as far
\* as it differs from the code above.  Its items carry lastAccess, the time of
\* the Put, and its sweep deletes when currentTime - lastAccess >= ttl: an item
\* is kept here as (value, expires) with expires = lastAccess + ttl, which
\* makes that test the one of Expired.  Its Get(key) returns the value alone,
\* with the body GetOrZero has above, and is called "GetOrZero" here; it has no
\* other lookup.
OpsLA == Ops \ {"Get"}

CallLA(c, o) == o \in OpsLA /\ Call(c, o)

\* case now := <-time.Tick(pruneInterval): every pass through the select makes
\* a new ticker, which first fires one interval later; time.Tick returns a nil
\* channel, which never delivers, for an interval that is not positive.
SweeperStartLA ==
    /\ sweeperPc = "start"
    /\ sweeperPc' = "select"
    /\ IF pruneInterval > 0
          THEN ticker' = "active" /\ tickerNext' = clock + pruneInterval
          ELSE UNCHANGED <<ticker, tickerNext>>
    /\ UNCHANGED <<timeVars, tableVars, lockVars, tickerC, tickerStops, currentTime,
                   clientVars>>

\* The range loop, m.lock.Unlock(), and the select again with its new ticker.
SweeperSweepLA ==
    /\ sweeperPc = "cs"
    /\ entries' = Sweep(entries, heap, currentTime)
    /\ heap' = Collect(heap, entries', dst)
    /\ lockWriter' = None
    /\ sweeperPc' = "select"
    /\ currentTime' = 0
    /\ tickerNext' = clock + pruneInterval
    /\ tickerC' = <<>>
    /\ UNCHANGED <<timeVars, lockReaders, ticker, tickerStops, clientVars>>

\* Delete of a key the table holds: delete(m.entries, key); return true, and
\* the deferred m.lock.Unlock().
DeleteFoundLA(c, k) == k \in DOMAIN entries /\ DeleteBody(c, k)

\* Delete of a key the table does not hold: `if !ok { m.lock.Unlock(); return
\* false }` releases the guard and sets the result; the deferred Unlock is
\* still to run.
DeleteAbsentLA(c, k) ==
    /\ pc[c] = "cs" /\ op[c] = "Delete"
    /\ k \notin DOMAIN entries
    /\ lockWriter' = None
    /\ pc' = [pc EXCEPT ![c] = "deferred"]
    /\ last' = [NoRet EXCEPT !.op = "Delete", !.key = k, !.ok = FALSE]
    /\ UNCHANGED <<timeVars, tableVars, lockReaders, tickerVars, sweeperVars,
                   op, dst, calls>>

\* The deferred m.lock.Unlock() of that Delete.  With no writer holding or
\* requesting the guard it is the fatal error "sync: Unlock of unlocked
\* RWMutex", which ends the process.  With another writer w holding or
\* requesting it, the Unlock releases the guard of w and Delete returns: w is
\* robbed, left inside or in front of its critical section without the guard
\* (the model follows a robbed goroutine no further).
DeleteDeferredLA(c) ==
    /\ pc[c] = "deferred"
    /\ IF lockWriter = None
          THEN /\ pc' = [d \in Clients |-> IF d = c THEN "fatal" ELSE "crashed"]
               /\ sweeperPc' = "crashed"
               /\ UNCHANGED <<lockVars, op>>
          ELSE /\ lockWriter' = None
               /\ pc' = [d \in Clients |-> IF d = c THEN "idle"
                                           ELSE IF d = lockWriter THEN "robbed"
                                           ELSE pc[d]]
               /\ sweeperPc' = IF lockWriter = Sweeper THEN "robbed" ELSE sweeperPc
               /\ op' = [op EXCEPT ![c] = None]
               /\ UNCHANGED lockReaders
    /\ UNCHANGED <<timeVars, tableVars, tickerVars, currentTime, last, dst, calls>>

\* m.stop <- true meets the sweeper's `case <-m.stop: return`; this variant
\* has no ticker.Stop().
CloseSendLA(c) ==
    /\ pc[c] = "send" /\ op[c] = "Close"
    /\ sweeperPc = "select"
    /\ sweeperPc' = "stopped"
    /\ pc' = [pc EXCEPT ![c] = "lock"]
    /\ UNCHANGED <<timeVars, tableVars, lockVars, tickerVars, currentTime,
                   op, last, dst, calls>>

NextLA ==
    \/ AdvanceClock
    \/ SweeperStartLA
    \/ SweeperTick
    \/ SweeperLock
    \/ SweeperDrain
    \/ SweeperSweepLA
    \/ \E c \in Clients, o \in Ops : CallLA(c, o)
    \/ \E c \in Clients : Acquire(c)
    \/ \E c \in Clients : Drain(c)
    \/ \E c \in Clients : LenBody(c)
    \/ \E c \in Clients, k \in Keys, v \in Values : PutBody(c, k, v)
    \/ \E c \in Clients, k \in Keys : GetOrZeroBody(c, k)
    \/ \E c \in Clients, k \in Keys : DeleteFoundLA(c, k)
    \/ \E c \in Clients, k \in Keys : DeleteAbsentLA(c, k)
    \/ \E c \in Clients : DeleteDeferredLA(c)
    \/ \E c \in Clients, k \in Keys : ClearStep(c, k)
    \/ \E c \in Clients : ClearReturn(c)
    \/ \E c \in Clients : CopyBody(c)
    \/ \E c \in Clients : CloseSendLA(c)

SpecLA == Init /\ [][NextLA]_vars

\* ------------------------------------------------------------------ properties
\* The table as its callers see it: key -> (value, expires).
Table == [k \in DOMAIN entries |-> heap[entries[k]]]

Item(k) == heap[entries[k]]

\* A client step that writes key k: Put(k, _), Delete(k), or the clear of Clear/Close.
ClientWrites(k) ==
    \E c \in Clients :
        \/ DeleteBody(c, k)
        \/ ClearStep(c, k)
        \/ \E v \in Values : PutBody(c, k, v)

\* C1: while the sweeper is running, a key put at time p with TTL t and not put
\* again is absent from Len()'s count and from Copy()'s map at every time
\* >= p + t + pruneInterval (expires = p + t).
C1_AbsentAfterTtlPlusInterval ==
    sweeperPc # "stopped" =>
        \A k \in Keys :
            (k \in DOMAIN entries /\ clock >= Item(k).expires + pruneInterval)
                => (k \notin DOMAIN Copy(entries) /\ Len(entries) = 0)

\* C2: no premature eviction.  An entry whose deadline has not passed stays in
\* the table with its value (so Get returns (value, true)) through every step
\* but a client's Delete, Clear, Close or Put of that key; and with ttl > 0 a
\* sweep does not delete an entry that was put at or after the time of the tick
\* the sweep runs for.
C2_NoPrematureEviction ==
    [][\A k \in DOMAIN entries :
          /\ clock < Item(k).expires =>
                \/ /\ k \in DOMAIN entries'
                   /\ heap'[entries'[k]] = Item(k)
                   /\ Get(entries', heap', k) = [value |-> Item(k).value, ok |-> TRUE]
                \/ ClientWrites(k)
          /\ (SweeperSweep /\ ttl > 0 /\ Item(k).expires - ttl >= currentTime)
                => k \in DOMAIN entries'
      ]_vars

\* A sweep holds the guard for a tick that fired no later than the Put of an
\* entry still in the table.
C2_Witness ==
    /\ sweeperPc = "cs"
    /\ ttl > 0
    /\ \E k \in DOMAIN entries : Item(k).expires - ttl >= currentTime

\* C3: replace semantics.  After Put(k, v) Get(k) is (v, true), and a Put on a
\* key the table already holds leaves Len() as it was: the key counts once.
C3_ReplaceSemantics ==
    [][\A c \in Clients, k \in Keys, v \in Values :
          PutBody(c, k, v) =>
              /\ Get(entries', heap', k) = [value |-> v, ok |-> TRUE]
              /\ Len(entries') = IF k \in DOMAIN entries THEN Len(entries)
                                                        ELSE Len(entries) + 1
      ]_vars

\* A key was put, copied and put again with another value: the copy still
\* holds the first item, the table holds the second and counts the key once.
C3_Witness ==
    \E k \in Keys :
        /\ DOMAIN entries = {k} /\ DOMAIN dst = {k}
        /\ entries[k] # dst[k]
        /\ heap[entries[k]].value # heap[dst[k]].value
        /\ Len(entries) = 1

\* C4: Get(k) returns (v, true) exactly when the table holds k with value v and
\* (zero value, false) otherwise; GetOrZero(k) returns the value Get(k) returns.
C4_LookupResult ==
    /\ [](\A k \in Keys : GetOrZero(entries, heap, k) = Get(entries, heap, k).value)
    /\ [][\A c \in Clients, k \in Keys :
             /\ GetBody(c, k) =>
                   last' = [NoRet EXCEPT
                               !.op = "Get", !.key = k,
                               !.value = IF k \in DOMAIN entries THEN Item(k).value
                                                                 ELSE ZeroValue,
                               !.ok = (k \in DOMAIN entries)]
             /\ GetOrZeroBody(c, k) =>
                   last' = [NoRet EXCEPT
                               !.op = "GetOrZero", !.key = k,
                               !.value = IF k \in DOMAIN entries THEN Item(k).value
                                                                 ELSE ZeroValue]
         ]_vars

\* A Get has found a key with a value that is not the zero value.
C4_Witness == last.op = "Get" /\ last.ok /\ last.value # ZeroValue

C6_OnlySweepExpires ==
    /\ [](Len(entries) = Cardinality({k \in Keys : Get(entries, heap, k).ok}))
    /\ [][/\ AdvanceClock => (entries' = entries /\ Table' = Table)
          /\ \A k \in DOMAIN entries :
                k \notin DOMAIN entries' =>
                    \/ SweeperSweep
                    \/ \E c \in Clients : DeleteBody(c, k) \/ ClearStep(c, k)
         ]_vars

\* TestNoItemsExpired: ttl < pruneInterval, two keys put, their deadlines have
\* passed, no tick has fired yet, and Len() returned 2.
C6_Witness ==
    /\ ttl < pruneInterval
    /\ ticker = "active" /\ tickerNext = pruneInterval /\ sweeperPc = "select"
    /\ Len(entries) = 2
    /\ \A k \in DOMAIN entries : clock >= Item(k).expires
    /\ last.op = "Len" /\ last.size = 2

\* C7: Delete(k) returns true exactly when k was present; afterwards k is
\* absent and every other entry is unchanged; on an absent key it returns
\* false and changes neither Len() nor any entry.
C7_Delete ==
    [][\A c \in Clients, k \in Keys :
          DeleteBody(c, k) =>
              /\ last' = [NoRet EXCEPT !.op = "Delete", !.key = k,
                                       !.ok = (k \in DOMAIN entries)]
              /\ k \notin DOMAIN entries'
              /\ \A j \in Keys \ {k} :
                    /\ j \in DOMAIN entries <=> j \in DOMAIN entries'
                    /\ j \in DOMAIN entries => heap'[entries'[j]] = Item(j)
              /\ k \notin DOMAIN entries =>
                    (Len(entries') = Len(entries) /\ Table' = Table)
      ]_vars

\* Delete removed a key and another entry is still in the table.
C7_Witness ==
    /\ last.op = "Delete" /\ last.ok
    /\ last.key \notin DOMAIN entries
    /\ Len(entries) = 1

\* C8: Clear is atomic.  While a Clear is clearing the table no other goroutine
\* is inside the guard, so no Get, Len or Copy sees a partly cleared table; and
\* when Clear returns the table is empty.
C8_ClearAtomic ==
    /\ [](\A c \in Clients :
             (pc[c] = "cs" /\ op[c] \in {"Clear", "Close"}) =>
                 \A p \in Procs \ {c} : ~InCS(p))
    /\ [][\A c \in Clients : ClearReturn(c) => Len(entries') = 0]_vars

\* A Clear is inside the guard on a table that holds an entry while a reader
\* waits for the guard.
C8_Witness ==
    \E c, r \in Clients :
        /\ pc[c] = "cs" /\ op[c] = "Clear"
        /\ Len(entries) >= 1
        /\ pc[r] = "lock" /\ op[r] \in ReadOps

\* C9: snapshot independence.  The map Copy returns has the keys and
\* associations of the table at the instant of the copy; deleting, adding or
\* replacing keys in it leaves the table (and so every later Get, Len and
\* Copy) unchanged; Put, Delete, Clear and sweeps leave the returned map
\* unchanged.
C9_SnapshotIndependence ==
    [][/\ \A c \in Clients :
             CopyBody(c) => (dst' = entries /\ entries' = entries /\ Table' = Table)
       /\ ((\E k \in Keys : SnapDelete(k)) \/ (\E k, k2 \in Keys : SnapAssign(k, k2)))
             => (entries' = entries /\ Table' = Table)
       /\ (SweeperSweep \/ \E k \in Keys : ClientWrites(k)) => dst' = dst
      ]_vars

\* The returned map holds a key that the table no longer holds.
C9_Witness == \E k \in DOMAIN dst : k \notin DOMAIN entries

\* C10: no operation hands a caller a reference to a stored item: every item
\* reachable from the map Copy returned is distinct from the items of the table.
C10_NoSharedEntry == Range(dst) \cap Range(entries) = {}

\* A process that writes the table: the sweeper, or a client in Put, Delete,
\* Clear or Close.
IsWriter(p) == p = Sweeper \/ op[p] \in {"Put", "Delete", "Clear", "Close"}

\* C11: guard discipline.  While a Put, Delete, Clear or sweep is inside its
\* critical section no other process is inside one; and Get, GetOrZero, Len
\* and Copy do not exclude one another: none of them waits for readers to
\* leave the guard, and the guard is closed to them only by a Put, Delete,
\* Clear or sweep that holds or has requested it.
C11_GuardDiscipline ==
    /\ \A p \in Procs : (InCS(p) /\ IsWriter(p)) => \A q \in Procs \ {p} : ~InCS(q)
    /\ \A r \in Clients :
          op[r] \in ReadOps \cup {"Copy"} =>
              /\ pc[r] # "drain"
              /\ (pc[r] = "lock" /\ lockWriter # None) => IsWriter(lockWriter)

\* C15: New fails at construction when pruneInterval is not positive: no map
\* is returned, so no operation is ever called on one and the sweeper goroutine
\* is never started to fail later.
C15_FailsAtConstruction ==
    pruneInterval <= 0 => (calls = 0 /\ sweeperPc = "start")

\* C12: shutdown ordering.  A Close that has passed its send on m.stop (it waits
\* for the guard, holds it or clears the table) finds the sweeper stopped; and
\* when Close returns the table is empty and the sweeper is stopped.
C12_ShutdownOrdering ==
    /\ [](\A c \in Clients :
             (op[c] = "Close" /\ pc[c] \in {"lock", "drain", "cs"})
                 => sweeperPc = "stopped")
    /\ [][\A c \in Clients :
             (ClearReturn(c) /\ op[c] = "Close")
                 => (Len(entries') = 0 /\ sweeperPc' = "stopped")]_vars

\* Close is clearing a table that holds an entry, after the sweeper stopped.
C12_Witness ==
    \E c \in Clients :
        /\ op[c] = "Close" /\ pc[c] = "cs"
        /\ Len(entries) >= 1
        /\ sweeperPc = "stopped"

C17_SweepExactAtExamination ==
    [][SweeperSweep =>
          \A k \in DOMAIN entries :
              /\ (k \notin DOMAIN entries') <=> (clock >= Item(k).expires)
              /\ k \in DOMAIN entries' => heap'[entries'[k]] = Item(k)
      ]_vars

\* C18: the sweeper stops for good.  Its ticker is stopped exactly when it has
\* taken the stop branch, and exactly once; once stopped it stays stopped,
\* receives no tick, never holds the guard, runs no sweep, and entries leave
\* the table only by a client's Delete or Clear.
C18_StoppedForGood ==
    /\ [](sweeperPc = "stopped" =>
             (ticker = "stopped" /\ tickerStops = 1 /\ lockWriter # Sweeper))
    /\ [](sweeperPc # "stopped" => (ticker # "stopped" /\ tickerStops = 0))
    /\ [][sweeperPc = "stopped" =>
             /\ sweeperPc' = "stopped"
             /\ tickerC' = tickerC
             /\ ~SweeperSweep
             /\ \A k \in DOMAIN entries :
                   k \notin DOMAIN entries' =>
                       \E c \in Clients : DeleteBody(c, k) \/ ClearStep(c, k)
         ]_vars

\* The sweeper has stopped with a tick left in ticker.C, Close has returned,
\* and the table holds an entry whose deadline has passed.
C18_Witness ==
    /\ sweeperPc = "stopped"
    /\ tickerC # <<>>
    /\ \A c \in Clients : pc[c] = "idle"
    /\ \E k \in DOMAIN entries : clock >= Item(k).expires

\* C19: Close is one-shot.  At most one send on m.stop is ever received, and a
\* Close whose send finds the sweeper stopped stays at the send: it does not
\* go on to Clear and does not return.
C19_SecondCloseBlocks ==
    /\ [](tickerStops <= 1)
    /\ [][\A c \in Clients :
             (op[c] = "Close" /\ pc[c] = "send" /\ sweeperPc = "stopped")
                 => (pc'[c] = "send" /\ op'[c] = "Close")]_vars

\* A Close has completed (the sweeper is stopped and the other client is
\* idle) and a second Close is at its send.
C19_Witness ==
    \E c \in Clients :
        /\ op[c] = "Close" /\ pc[c] = "send"
        /\ sweeperPc = "stopped"
        /\ \A d \in Clients \ {c} : pc[d] = "idle"

\* C13: a single Close terminates.  Under fair scheduling a Close that is the
\* only one called on a validly constructed map returns, wherever the sweeper
\* is (before its select, holding a tick, waiting for the guard or sweeping)
\* and whatever the other client does -- unless a second Close is called
\* meanwhile.
C13_CloseTerminates ==
    \A c \in Clients :
        (/\ pruneInterval > 0
         /\ op[c] = "Close" /\ pc[c] = "send"
         /\ sweeperPc # "stopped"
         /\ \A d \in Clients \ {c} : op[d] # "Close")
            ~> (pc[c] = "idle" \/ \E d \in Clients \ {c} : op[d] = "Close")

\* A Close is at its send while the sweeper waits for the guard with a tick in
\* hand and the other client holds the guard inside Put.
C13_Witness ==
    \E c, d \in Clients :
        /\ op[c] = "Close" /\ pc[c] = "send"
        /\ sweeperPc = "lock"
        /\ op[d] = "Put" /\ pc[d] = "cs"

\* C14: client operations complete.  Under fair scheduling every call of Put,
\* Get, GetOrZero, Delete, Clear, Len or Copy on a validly constructed map gets
\* the guard, runs and returns.
C14_OperationsComplete ==
    \A c \in Clients :
        (pruneInterval > 0 /\ op[c] \in ReadOps \cup WriteOps) ~> (pc[c] = "idle")

\* A Get waits for the guard behind the running sweep while the other client
\* waits for it too, inside Put.
C14_Witness ==
    \E c, d \in Clients :
        /\ op[c] = "Get" /\ pc[c] = "lock"
        /\ sweeperPc = "cs"
        /\ op[d] = "Put" /\ pc[d] = "lock"

\* C20: in the last-access variant a Delete of an absent key returns false with
\* the table as it was and releases the guard once: its second Unlock, the
\* deferred one, neither ends the process nor takes the guard from another
\* goroutine.
C20_DeleteAbsentReleasesOnce ==
    /\ sweeperPc \notin {"crashed", "robbed"}
    /\ \A c \in Clients : pc[c] \notin {"fatal", "crashed", "robbed"}

====
